---- MODULE Spec2Model ----
(***************************************************************************)
(* A model of CropCareAI: the heuristic plant disease detector             *)
(* (plant_disease_detector.py) and the Gemini advice / chat service        *)
(* (gemini_service.py).                                                    *)
(*                                                                         *)
(* Representation choices                                                  *)
(*  - A Python string is a sequence of tokens: maximal alphabetic words,   *)
(*    and the separators "_" and " " as tokens of their own.               *)
(*  - A real number produced by the feature extractor is an exact rational *)
(*    [n, d, root]: n/d, or the square root of n/d when root is TRUE (the  *)
(*    standard deviation).                                                 *)
(*  - A confidence is an integer number of thousandths (0.904 is 904).     *)
(*  - cv2 and numpy are library calls: the HSV pixels and the gradient     *)
(*    magnitudes they yield for an image are inputs of the model.          *)
(***************************************************************************)
EXTENDS Integers, Sequences, FiniteSets, TLC

(***************************************************************************)
(* Bounds of the model                                                     *)
(***************************************************************************)
NumPixels == 2
MaxGradient == 2
ConfPoints == 2
OtherLevels == 1
MaxCalls == 4

(***************************************************************************)
(* Strings                                                                 *)
(***************************************************************************)
RECURSIVE Name(_)
Name(words) ==
    IF Len(words) <= 1 THEN words
    ELSE <<words[1], "_">> \o Name(Tail(words))

\* 'Healthy' in predicted_class
ContainsHealthy(s) == \E i \in 1..Len(s) : s[i] = "Healthy"

CLASSES == <<
    Name(<<"Apple", "Apple", "scab">>),
    Name(<<"Apple", "Black", "rot">>),
    Name(<<"Apple", "Cedar", "apple", "rust">>),
    Name(<<"Apple", "Healthy">>),
    Name(<<"Background", "without", "leaves">>),
    Name(<<"Blueberry", "Healthy">>),
    Name(<<"Cherry", "Powdery", "mildew">>),
    Name(<<"Cherry", "Healthy">>),
    Name(<<"Corn", "Cercospora", "leaf", "spot">>),
    Name(<<"Corn", "Common", "rust">>),
    Name(<<"Corn", "Northern", "Leaf", "Blight">>),
    Name(<<"Corn", "Healthy">>),
    Name(<<"Grape", "Black", "rot">>),
    Name(<<"Grape", "Esca">>),
    Name(<<"Grape", "Leaf", "blight">>),
    Name(<<"Grape", "Healthy">>),
    Name(<<"Orange", "Haunglongbing">>),
    Name(<<"Peach", "Bacterial", "spot">>),
    Name(<<"Peach", "Healthy">>),
    Name(<<"Pepper", "Bacterial", "spot">>),
    Name(<<"Pepper", "Healthy">>),
    Name(<<"Potato", "Early", "blight">>),
    Name(<<"Potato", "Late", "blight">>),
    Name(<<"Potato", "Healthy">>),
    Name(<<"Raspberry", "Healthy">>),
    Name(<<"Soybean", "Healthy">>),
    Name(<<"Squash", "Powdery", "mildew">>),
    Name(<<"Strawberry", "Leaf", "scorch">>),
    Name(<<"Strawberry", "Healthy">>),
    Name(<<"Tomato", "Bacterial", "spot">>),
    Name(<<"Tomato", "Early", "blight">>),
    Name(<<"Tomato", "Late", "blight">>),
    Name(<<"Tomato", "Leaf", "Mold">>),
    Name(<<"Tomato", "Septoria", "leaf", "spot">>),
    Name(<<"Tomato", "Spider", "mites">>),
    Name(<<"Tomato", "Target", "Spot">>),
    Name(<<"Tomato", "Mosaic", "virus">>),
    Name(<<"Tomato", "Yellow", "Leaf", "Curl", "Virus">>),
    Name(<<"Tomato", "Healthy">>)
>>

ClassSet == {CLASSES[i] : i \in 1..Len(CLASSES)}

(***************************************************************************)
(* Exact rationals                                                         *)
(***************************************************************************)
RECURSIVE Gcd(_, _)
Gcd(a, b) == IF b = 0 THEN a ELSE Gcd(b, a % b)

Q(n, d) == [n |-> n, d |-> d, root |-> FALSE]

Root(q) == [n |-> q.n, d |-> q.d, root |-> TRUE]

Reduce(n, d) ==
    LET g == Gcd(n, d) IN IF g = 0 THEN Q(n, d) ELSE Q(n \div g, d \div g)

AddQ(x, y) == Reduce(x.n * y.d + y.n * x.d, x.d * y.d)

\* x > tn/td, for tn >= 0, td > 0 and a non-negative x
GreaterThan(x, tn, td) ==
    IF x.root THEN x.n * td * td > tn * tn * x.d
    ELSE x.n * td > tn * x.d

\* x < tn/td for a rational x
LessThan(x, tn, td) == x.n * td < tn * x.d

RECURSIVE SumQ(_)
SumQ(s) == IF s = <<>> THEN Q(0, 1) ELSE AddQ(s[1], SumQ(Tail(s)))

\* np.mean of a sequence of rationals
MeanQ(s) == LET t == SumQ(s) IN Reduce(t.n, t.d * Len(s))

RECURSIVE SumSeq(_)
SumSeq(s) == IF s = <<>> THEN 0 ELSE s[1] + SumSeq(Tail(s))

MaxSeq(s) == CHOOSE m \in {s[i] : i \in 1..Len(s)} : \A i \in 1..Len(s) : s[i] <= m

(***************************************************************************)
(* Feature extraction                                                      *)
(***************************************************************************)
DISEASE_INDICATORS == <<
    [name |-> "Brown spots",  lower |-> <<10, 100, 20>>,  upper |-> <<20, 255, 200>>],
    [name |-> "Yellow spots", lower |-> <<20, 100, 100>>, upper |-> <<30, 255, 255>>],
    [name |-> "Black spots",  lower |-> <<0, 0, 0>>,      upper |-> <<180, 255, 30>>],
    [name |-> "White powder", lower |-> <<0, 0, 200>>,    upper |-> <<180, 30, 255>>],
    [name |-> "Rotting",      lower |-> <<0, 50, 10>>,    upper |-> <<15, 255, 100>>] >>

\* cv2.inRange: inclusive on both ends, on every channel
inRange(px, lower, upper) == \A c \in 1..3 : lower[c] <= px[c] /\ px[c] <= upper[c]

\* np.sum(mask > 0)
MaskCount(hsv, lower, upper) ==
    Cardinality({i \in 1..Len(hsv) : inRange(hsv[i], lower, upper)})

ChannelSum(hsv, c) == SumSeq([i \in 1..Len(hsv) |-> hsv[i][c]])

extract_color_features(img) ==
    [k \in 1..8 |->
        IF k <= Len(DISEASE_INDICATORS)
        THEN Q(MaskCount(img.hsv, DISEASE_INDICATORS[k].lower, DISEASE_INDICATORS[k].upper),
               Len(img.hsv))
        ELSE Q(ChannelSum(img.hsv, k - 5), Len(img.hsv) * 255)]

\* the division without its guard
NormaliseAlways(g) == [i \in 1..Len(g) |-> Q(g[i], MaxSeq(g))]

\* gradient_mag / gradient_mag.max() if gradient_mag.max() > 0 else gradient_mag
Normalise(g) ==
    IF MaxSeq(g) > 0 THEN [i \in 1..Len(g) |-> Q(g[i], MaxSeq(g))]
    ELSE [i \in 1..Len(g) |-> Q(g[i], 1)]

\* the k-th smallest numerator (1-based) of a sequence with one denominator
KthSmallest(a, k) ==
    CHOOSE v \in {a[i].n : i \in 1..Len(a)} :
        /\ Cardinality({i \in 1..Len(a) : a[i].n < v}) < k
        /\ Cardinality({i \in 1..Len(a) : a[i].n <= v}) >= k

\* np.mean over values that share the denominator a[1].d
MeanNorm(a) == Q(SumSeq([i \in 1..Len(a) |-> a[i].n]), Len(a) * a[1].d)

\* np.std: the root of the population variance
StdNorm(a) ==
    LET n   == Len(a)
        s1  == SumSeq([i \in 1..n |-> a[i].n])
        s2  == SumSeq([i \in 1..n |-> a[i].n * a[i].n])
    IN  Root(Q(n * s2 - s1 * s1, n * n * a[1].d * a[1].d))

\* np.percentile(a, 90): linear interpolation at position 0.9 * (n - 1)
Percentile90(a) ==
    LET n    == Len(a)
        pos  == 9 * (n - 1)
        lo   == pos \div 10
        frac == pos % 10
        vlo  == KthSmallest(a, lo + 1)
        vhi  == IF lo + 2 <= n THEN KthSmallest(a, lo + 2) ELSE vlo
    IN  Q(10 * vlo + frac * (vhi - vlo), 10 * a[1].d)

extract_texture_features(img) ==
    LET gradient_mag == Normalise(img.gradient_mag)
    IN  << MeanNorm(gradient_mag), StdNorm(gradient_mag), Percentile90(gradient_mag) >>

\* np.concatenate([color_features, texture_features])
Features(img) == extract_color_features(img) \o extract_texture_features(img)

(***************************************************************************)
(* The threshold classifier: the set of indices one call can return        *)
(***************************************************************************)
healthy_indices == {3, 5, 7, 11, 15, 18, 20, 23, 24, 25, 28, 38}

\* the classifier with the yellow rule tested before the brown rule
simple_disease_classifier_yellow_first(features) ==
    LET color_features   == SubSeq(features, 1, 8)
        texture_features == SubSeq(features, 9, Len(features))
    IN  IF GreaterThan(color_features[2], 2, 10) THEN {30}
        ELSE IF GreaterThan(color_features[1], 15, 100) /\ GreaterThan(texture_features[2], 2, 10)
        THEN {0, 1}
        ELSE IF GreaterThan(color_features[4], 1, 10) THEN {6}
        ELSE IF GreaterThan(color_features[3], 12, 100) THEN {31}
        ELSE IF /\ LessThan(MeanQ(SubSeq(color_features, 1, 5)), 1, 10)
                /\ GreaterThan(color_features[6], 4, 10)
        THEN healthy_indices
        ELSE 0..(Len(CLASSES) - 1)

\* the classifier with a fallback that draws from range(len(CLASSES) - 1)
simple_disease_classifier_short_fallback(features) ==
    LET color_features   == SubSeq(features, 1, 8)
        texture_features == SubSeq(features, 9, Len(features))
    IN  IF GreaterThan(color_features[1], 15, 100) /\ GreaterThan(texture_features[2], 2, 10)
        THEN {0, 1}
        ELSE IF GreaterThan(color_features[2], 2, 10) THEN {30}
        ELSE IF GreaterThan(color_features[4], 1, 10) THEN {6}
        ELSE IF GreaterThan(color_features[3], 12, 100) THEN {31}
        ELSE IF /\ LessThan(MeanQ(SubSeq(color_features, 1, 5)), 1, 10)
                /\ GreaterThan(color_features[6], 4, 10)
        THEN healthy_indices
        ELSE 0..(Len(CLASSES) - 2)

simple_disease_classifier(features) ==
    LET color_features   == SubSeq(features, 1, 8)
        texture_features == SubSeq(features, 9, Len(features))
    IN  IF GreaterThan(color_features[1], 15, 100) /\ GreaterThan(texture_features[2], 2, 10)
        THEN {0, 1}
        ELSE IF GreaterThan(color_features[2], 2, 10) THEN {30}
        ELSE IF GreaterThan(color_features[4], 1, 10) THEN {6}
        ELSE IF GreaterThan(color_features[3], 12, 100) THEN {31}
        ELSE IF /\ LessThan(MeanQ(SubSeq(color_features, 1, 5)), 1, 10)
                /\ GreaterThan(color_features[6], 4, 10)
        THEN healthy_indices
        ELSE 0..(Len(CLASSES) - 1)

(***************************************************************************)
(* The sample prediction table                                             *)
(***************************************************************************)
Pred(label, confidence) == [label |-> label, confidence |-> confidence]

\* the built-in table of load_sample_predictions
DefaultPredictions == <<
    Pred(Name(<<"Apple", "Scab">>), 904),
    Pred(Name(<<"Tomato", "Late", "blight">>), 856),
    Pred(Name(<<"Potato", "Healthy">>), 736),
    Pred(Name(<<"Grape", "Black", "rot">>), 892),
    Pred(Name(<<"Corn", "Common", "rust">>), 817) >>

possible_locations == <<
    "attached_assets/detection_results.json",
    "static/data/detection_results.json",
    "detection_results.json" >>

\* One JSON object of a results file: the keys it has, and whether float()
\* accepts its confidence.
Item(keys, prediction, confidence, numeric) ==
    [keys |-> keys, prediction |-> prediction, confidence |-> confidence, numeric |-> numeric]

\* What is found at one candidate path
NoFile == [exists |-> FALSE, valid_json |-> FALSE, items |-> <<>>]

JsonFile(items) == [exists |-> TRUE, valid_json |-> TRUE, items |-> items]

MalformedFile == [exists |-> TRUE, valid_json |-> FALSE, items |-> <<>>]

BothKeys == {"prediction", "confidence"}

GoodFile == JsonFile(<<
    Item(BothKeys, Name(<<"Tomato", "Healthy">>), 950, TRUE),
    Item(BothKeys, Name(<<"Potato", "Late", "blight">>), 612, TRUE) >>)

\* a label outside CLASSES with confidence 1.0
ForeignFile == JsonFile(<< Item(BothKeys, Name(<<"Wheat", "Rust">>), 1000, TRUE) >>)

\* no object has both keys
PartialFile == JsonFile(<< Item({"prediction"}, Name(<<"Corn", "Healthy">>), 0, FALSE) >>)

\* the second object's confidence is not a number
BadFloatFile == JsonFile(<<
    Item(BothKeys, Name(<<"Grape", "Esca">>), 700, TRUE),
    Item(BothKeys, Name(<<"Grape", "Healthy">>), 0, FALSE) >>)

\* an object without confidence, then a usable one
MixedFile == JsonFile(<<
    Item({"prediction"}, Name(<<"Corn", "Healthy">>), 0, FALSE),
    Item(BothKeys, Name(<<"Peach", "Healthy">>), 880, TRUE) >>)

EmptyListFile == JsonFile(<<>>)

FileContents ==
    {NoFile, MalformedFile, EmptyListFile, GoodFile, ForeignFile, PartialFile,
     BadFloatFile, MixedFile}

FileSystems == [1..Len(possible_locations) -> FileContents]

\* the file systems the detection runs are explored under: a first candidate
\* that is absent, unparsable or empty, a second that is absent or usable
DetectFileSystems ==
    {fs \in FileSystems :
        /\ fs[1] \in {NoFile, MalformedFile, EmptyListFile}
        /\ fs[2] \in {NoFile, ForeignFile}
        /\ fs[3] = NoFile}

Usable(item) == "prediction" \in item.keys /\ "confidence" \in item.keys

\* the body of the try block for one file: raised is TRUE when json.load or
\* float() raises
RECURSIVE LoadItems(_)
LoadItems(items) ==
    IF items = <<>> THEN [raised |-> FALSE, loaded |-> <<>>]
    ELSE LET item == items[1] IN
         IF Usable(item)
         THEN IF ~item.numeric THEN [raised |-> TRUE, loaded |-> <<>>]
              ELSE LET rest == LoadItems(Tail(items)) IN
                   [raised |-> rest.raised,
                    loaded |-> IF rest.raised THEN <<>>
                               ELSE <<Pred(item.prediction, item.confidence)>> \o rest.loaded]
         ELSE LoadItems(Tail(items))

ReadFile(file) ==
    IF ~file.valid_json THEN [raised |-> TRUE, loaded |-> <<>>]
    ELSE LoadItems(file.items)

\* the loop as it would be if the first existing file ended the search
\* whether or not it could be loaded
RECURSIVE ScanLocationsFirstExisting(_, _, _)
ScanLocationsFirstExisting(fs, k, sample_preds) ==
    IF k > Len(possible_locations) THEN sample_preds
    ELSE IF ~fs[k].exists THEN ScanLocationsFirstExisting(fs, k + 1, sample_preds)
    ELSE LET r == ReadFile(fs[k]) IN
         IF ~r.raised /\ r.loaded # <<>> THEN r.loaded ELSE sample_preds

\* the loop with "if loaded_predictions:" dropped: any file that parses ends
\* the search, even with nothing loaded
RECURSIVE ScanLocationsNoGuard(_, _, _)
ScanLocationsNoGuard(fs, k, sample_preds) ==
    IF k > Len(possible_locations) THEN sample_preds
    ELSE IF ~fs[k].exists THEN ScanLocationsNoGuard(fs, k + 1, sample_preds)
    ELSE LET r == ReadFile(fs[k]) IN
         IF ~r.raised THEN r.loaded
         ELSE ScanLocationsNoGuard(fs, k + 1, sample_preds)

\* the for loop over possible_locations, from candidate k on
RECURSIVE ScanLocations(_, _, _)
ScanLocations(fs, k, sample_preds) ==
    IF k > Len(possible_locations) THEN sample_preds
    ELSE IF ~fs[k].exists THEN ScanLocations(fs, k + 1, sample_preds)
    ELSE LET r == ReadFile(fs[k]) IN
         IF ~r.raised /\ r.loaded # <<>> THEN r.loaded
         ELSE ScanLocations(fs, k + 1, sample_preds)

load_sample_predictions(fs) == ScanLocations(fs, 1, DefaultPredictions)

(***************************************************************************)
(* State                                                                   *)
(***************************************************************************)
VARIABLES
    pc,                     \* position inside the running call
    files,                  \* what is found at each of possible_locations
    request,                \* detect_disease: what image_path leads to
    img,                    \* detect_disease: the preprocessed image
    features,               \* the 11-element feature vector
    sample_predictions,     \* the table of load_sample_predictions
    use_sample,             \* detect_disease: random.random() < 0.3
    predicted_class_index,  \* what simple_disease_classifier returned
    result,                 \* the (label, confidence) returned
    outcome,                \* "none", "returned" or "raised"
    path,                   \* "none", "rules", "sample" or "fallback"
    API_KEY,                \* gemini_service: TRUE when GEMINI_API_KEY is set
    disease_name,           \* get_treatment_recommendation: its argument
    gemini,                 \* what the generative call of the last request did
    treatment,              \* what get_treatment_recommendation gave back
    chat_history,           \* session id -> chat session handle
    next_handle,            \* the next handle model.start_chat() creates
    sent,                   \* <<session id, handle, call>>: user messages sent
    reply,                  \* what chat_with_gemini returned
    calls,                  \* number of chat_with_gemini calls so far
    called,                 \* the session ids chat_with_gemini was called with
    session_id,             \* the session id of the last chat_with_gemini call
    init_calls              \* number of initialize_chat calls so far

detectVars == <<files, request, img, features, sample_predictions, use_sample,
                predicted_class_index, result, outcome, path>>

serviceVars == <<API_KEY, disease_name, gemini, treatment, chat_history,
                 next_handle, sent, reply, calls, called, session_id, init_calls>>

vars == <<pc, detectVars, serviceVars>>

(***************************************************************************)
(* Inputs                                                                  *)
(***************************************************************************)
\* HSV pixels as cv2.cvtColor(img, COLOR_RGB2HSV) yields them for uint8
\* images: H in 0..179, S and V in 0..255
Palette == {
    <<15, 150, 100>>,    \* brown, and dark enough to count as rotting
    <<25, 200, 200>>,    \* yellow
    <<0, 0, 10>>,        \* black
    <<0, 0, 255>>,       \* white
    <<60, 255, 255>>,    \* green
    <<179, 255, 255>> }  \* the largest value of every channel: no indicator

Image(hsv, gradient_mag) == [hsv |-> hsv, gradient_mag |-> gradient_mag]

NoImage == Image(<<>>, <<>>)

Images ==
    {Image(h, g) : h \in [1..NumPixels -> Palette], g \in [1..NumPixels -> 0..MaxGradient]}

\* What image_path leads to: a decodable image, possibly one on which a cv2
\* or numpy call of the feature extraction raises, or a file cv2.imread
\* cannot decode.
Request(readable, image, lib_error) ==
    [readable |-> readable, image |-> image, lib_error |-> lib_error]

NoRequest == Request(FALSE, NoImage, FALSE)

Requests ==
    {Request(TRUE, i, e) : i \in Images, e \in BOOLEAN} \cup {Request(FALSE, NoImage, FALSE)}

NoResult == Pred(<<>>, 0)

\* random.uniform(lo, hi), in thousandths
Uniform(lo, hi) == {lo + (i * (hi - lo)) \div ConfPoints : i \in 0..ConfPoints}

(***************************************************************************)
(* detect_disease                                                          *)
(***************************************************************************)
InitLocals ==
    /\ request = NoRequest
    /\ img = NoImage
    /\ features = <<>>
    /\ sample_predictions = <<>>
    /\ use_sample = FALSE
    /\ predicted_class_index = -1
    /\ result = NoResult
    /\ outcome = "none"
    /\ path = "none"

\* chat_history = {}
NoSessions == [s \in {} |-> 0]

\* gemini_service with nothing requested yet
NoName == [is_str |-> TRUE, text |-> <<>>]

NoTreatment == [raised |-> FALSE, text |-> <<>>]

InitService ==
    /\ disease_name = NoName
    /\ gemini = "none"
    /\ treatment = NoTreatment
    /\ chat_history = NoSessions
    /\ next_handle = 1
    /\ sent = {}
    /\ reply = "none"
    /\ calls = 0
    /\ called = {}
    /\ session_id = "none"
    /\ init_calls = 0

Init ==
    /\ pc = "idle"
    /\ files \in DetectFileSystems
    /\ InitLocals
    /\ API_KEY = TRUE
    /\ InitService

\* a caller invokes detect_disease(image_path)
Call ==
    /\ pc = "idle"
    /\ \E r \in Requests : request' = r
    /\ pc' = "preprocess"
    /\ UNCHANGED <<files, img, features, sample_predictions, use_sample,
                   predicted_class_index, result, outcome, path>>
    /\ UNCHANGED serviceVars

\* img = preprocess_image(image_path): a failed load raises ValueError, which
\* preprocess_image logs and re-raises into the try block of detect_disease
preprocess_image ==
    /\ pc = "preprocess"
    /\ IF request.readable
       THEN img' = request.image /\ pc' = "extract"
       ELSE img' = img /\ pc' = "except"
    /\ UNCHANGED <<files, request, features, sample_predictions, use_sample,
                   predicted_class_index, result, outcome, path>>
    /\ UNCHANGED serviceVars

\* the two extractions and np.concatenate
extract_features ==
    /\ pc = "extract"
    /\ IF request.lib_error
       THEN features' = features /\ pc' = "except"
       ELSE features' = Features(img) /\ pc' = "load"
    /\ UNCHANGED <<files, request, img, sample_predictions, use_sample,
                   predicted_class_index, result, outcome, path>>
    /\ UNCHANGED serviceVars

\* sample_predictions = load_sample_predictions()
load_samples ==
    /\ pc = "load"
    /\ sample_predictions' = load_sample_predictions(files)
    /\ pc' = "choose"
    /\ UNCHANGED <<files, request, img, features, use_sample,
                   predicted_class_index, result, outcome, path>>
    /\ UNCHANGED serviceVars

\* the decision taken after the classifier has already run on the features
choose_sample_after_classify ==
    /\ pc = "choose"
    /\ \E u \in BOOLEAN :
        /\ use_sample' = u
        /\ IF u /\ sample_predictions # <<>>
           THEN /\ \E idx \in simple_disease_classifier(features) :
                    predicted_class_index' = idx
                /\ \E i \in 1..Len(sample_predictions) : result' = sample_predictions[i]
                /\ path' = "sample"
                /\ outcome' = "returned"
                /\ pc' = "returned"
           ELSE /\ pc' = "classify"
                /\ UNCHANGED <<result, path, outcome, predicted_class_index>>
    /\ UNCHANGED <<files, request, img, features, sample_predictions>>
    /\ UNCHANGED serviceVars

\* use_sample = random.random() < 0.3, and the sample branch
choose_sample ==
    /\ pc = "choose"
    /\ \E u \in BOOLEAN :
        /\ use_sample' = u
        /\ IF u /\ sample_predictions # <<>>
           THEN /\ \E i \in 1..Len(sample_predictions) : result' = sample_predictions[i]
                /\ path' = "sample"
                /\ outcome' = "returned"
                /\ pc' = "returned"
           ELSE /\ pc' = "classify"
                /\ UNCHANGED <<result, path, outcome>>
    /\ UNCHANGED <<files, request, img, features, sample_predictions,
                   predicted_class_index>>
    /\ UNCHANGED serviceVars

\* predicted_class_index = simple_disease_classifier(features); an index
\* outside CLASSES makes CLASSES[predicted_class_index] raise IndexError
classify ==
    /\ pc = "classify"
    /\ \E idx \in simple_disease_classifier(features) :
        /\ predicted_class_index' = idx
        /\ pc' = IF idx + 1 \in DOMAIN CLASSES THEN "confidence" ELSE "except"
    /\ UNCHANGED <<files, request, img, features, sample_predictions, use_sample,
                   result, outcome, path>>
    /\ UNCHANGED serviceVars

\* the rule path with the two confidence ranges exchanged
draw_confidence_swapped ==
    /\ pc = "confidence"
    /\ LET predicted_class == CLASSES[predicted_class_index + 1] IN
       \E c \in (IF ContainsHealthy(predicted_class)
                 THEN Uniform(600, 900) ELSE Uniform(700, 950)) :
           result' = Pred(predicted_class, c)
    /\ path' = "rules"
    /\ outcome' = "returned"
    /\ pc' = "returned"
    /\ UNCHANGED <<files, request, img, features, sample_predictions, use_sample,
                   predicted_class_index>>
    /\ UNCHANGED serviceVars

\* the confidence of the rule path, and the return
draw_confidence ==
    /\ pc = "confidence"
    /\ LET predicted_class == CLASSES[predicted_class_index + 1] IN
       \E c \in (IF ContainsHealthy(predicted_class)
                 THEN Uniform(700, 950) ELSE Uniform(600, 900)) :
           result' = Pred(predicted_class, c)
    /\ path' = "rules"
    /\ outcome' = "returned"
    /\ pc' = "returned"
    /\ UNCHANGED <<files, request, img, features, sample_predictions, use_sample,
                   predicted_class_index>>
    /\ UNCHANGED serviceVars

\* a handler that logs and re-raises, as the one of preprocess_image does
except_reraise ==
    /\ pc = "except"
    /\ outcome' = "raised"
    /\ pc' = "returned"
    /\ UNCHANGED <<files, request, img, features, sample_predictions, use_sample,
                   predicted_class_index, result, path>>
    /\ UNCHANGED serviceVars

\* except Exception: fallback = random.choice(load_sample_predictions());
\* random.choice of an empty list raises IndexError out of the handler
except_fallback ==
    /\ pc = "except"
    /\ LET table == load_sample_predictions(files) IN
       IF table = <<>>
       THEN outcome' = "raised" /\ UNCHANGED <<result, path>>
       ELSE /\ \E i \in 1..Len(table) : result' = table[i]
            /\ path' = "fallback"
            /\ outcome' = "returned"
    /\ pc' = "returned"
    /\ UNCHANGED <<files, request, img, features, sample_predictions, use_sample,
                   predicted_class_index>>
    /\ UNCHANGED serviceVars

\* the call is over: its locals are gone
Return ==
    /\ pc = "returned"
    /\ pc' = "idle"
    /\ request' = NoRequest
    /\ img' = NoImage
    /\ features' = <<>>
    /\ sample_predictions' = <<>>
    /\ use_sample' = FALSE
    /\ predicted_class_index' = -1
    /\ result' = NoResult
    /\ outcome' = "none"
    /\ path' = "none"
    /\ UNCHANGED <<files, serviceVars>>

Next ==
    \/ Call
    \/ preprocess_image
    \/ extract_features
    \/ load_samples
    \/ choose_sample
    \/ classify
    \/ draw_confidence
    \/ except_fallback
    \/ Return

Spec == Init /\ [][Next]_vars

(***************************************************************************)
(* Properties of detect_disease                                            *)
(***************************************************************************)
Entries(table) == {table[i] : i \in 1..Len(table)}

Returned == pc = "returned" /\ outcome = "returned"

\* C1: every label detect_disease returns, on the rule path, the sample path
\* and the error fallback alike, is a member of CLASSES.
LabelInClasses == Returned => result.label \in ClassSet

\* C2: every confidence detect_disease returns, on every path and whether the
\* table is the built-in one or loaded from a file, is strictly between 0 and 1.
ConfidenceInOpenUnit ==
    Returned => 0 < result.confidence /\ result.confidence < 1000

\* C3 as stated: when the image cannot be loaded or decoded, detect_disease
\* raises to its caller instead of returning a result.
DecodeFailurePropagates ==
    (pc = "returned" /\ ~request.readable) => outcome = "raised"

\* C3 as amended: when the image cannot be loaded or decoded, the error of
\* preprocess_image is caught inside detect_disease, which returns one entry
\* of the table of load_sample_predictions and raises nothing.
DecodeFailureFallsBack ==
    (pc = "returned" /\ ~request.readable) =>
        /\ outcome = "returned"
        /\ path = "fallback"
        /\ result \in Entries(load_sample_predictions(files))

DecodeFailureWitness ==
    /\ pc = "returned"
    /\ ~request.readable
    /\ path = "fallback"
    /\ result = DefaultPredictions[2]

\* C4: when feature extraction raises inside detect_disease, the call does
\* not raise and returns exactly one entry of the table of
\* load_sample_predictions; that table is never empty.
ErrorFallbackReturnsEntry ==
    /\ load_sample_predictions(files) # <<>>
    /\ (pc = "returned" /\ request.lib_error) =>
        /\ outcome = "returned"
        /\ path = "fallback"
        /\ result \in Entries(load_sample_predictions(files))

ErrorFallbackWitness ==
    /\ pc = "returned"
    /\ request.lib_error
    /\ path = "fallback"
    /\ files[1] = EmptyListFile
    /\ files[2] = ForeignFile
    /\ result = Pred(Name(<<"Wheat", "Rust">>), 1000)

\* C6: a result of the rule path has its confidence in [0.7, 0.95] when the
\* label contains 'Healthy' and in [0.6, 0.9] otherwise.
RuleConfidenceRange ==
    (Returned /\ path = "rules") =>
        IF ContainsHealthy(result.label)
        THEN 700 <= result.confidence /\ result.confidence <= 950
        ELSE 600 <= result.confidence /\ result.confidence <= 900

RuleConfidenceWitness ==
    /\ Returned
    /\ path = "rules"
    /\ ContainsHealthy(result.label)
    /\ result.confidence = 950

(***************************************************************************)
(* load_sample_predictions on its own, over every file system              *)
(***************************************************************************)
InitLoad ==
    /\ pc = "load_idle"
    /\ files \in FileSystems
    /\ InitLocals
    /\ API_KEY = TRUE
    /\ InitService

load_call ==
    /\ pc = "load_idle"
    /\ sample_predictions' = load_sample_predictions(files)
    /\ pc' = "loaded"
    /\ UNCHANGED <<files, request, img, features, use_sample,
                   predicted_class_index, result, outcome, path>>
    /\ UNCHANGED serviceVars

NextLoad == load_call

SpecLoad == InitLoad /\ [][NextLoad]_vars

Existing == {k \in 1..Len(possible_locations) : files[k].exists}

Lowest(S) == CHOOSE k \in S : \A j \in S : k <= j

\* C7 as stated: the table is made of the entries of the first existing
\* candidate in priority order; it is the built-in table when no candidate
\* exists or when that first existing file fails to parse, later candidates
\* not being consulted.
FirstExistingDecides ==
    pc = "loaded" =>
        IF Existing = {} THEN sample_predictions = DefaultPredictions
        ELSE LET r == ReadFile(files[Lowest(Existing)]) IN
             IF r.raised THEN sample_predictions = DefaultPredictions
             ELSE sample_predictions = r.loaded

Loadable ==
    {k \in Existing : ~ReadFile(files[k]).raised /\ ReadFile(files[k]).loaded # <<>>}

\* C7 as amended: the table is made of the usable entries (objects with both
\* keys) of the first candidate, in priority order, that exists, parses and
\* holds at least one usable entry; a candidate that exists but fails to
\* parse or holds no usable entry is passed over for the next one; the
\* built-in 5-entry table is returned when no candidate qualifies.
FirstLoadableDecides ==
    pc = "loaded" =>
        IF Loadable = {} THEN sample_predictions = DefaultPredictions
        ELSE sample_predictions = ReadFile(files[Lowest(Loadable)]).loaded

FirstLoadableWitness ==
    /\ pc = "loaded"
    /\ files[1] = MalformedFile
    /\ files[2] = PartialFile
    /\ files[3] = MixedFile
    /\ sample_predictions = << Pred(Name(<<"Peach", "Healthy">>), 880) >>

(***************************************************************************)
(* simple_disease_classifier on its own, over a grid of feature vectors    *)
(***************************************************************************)
Hundredths(S) == {Q(n, 100) : n \in S}

Levels == {Q(i, OtherLevels) : i \in 0..OtherLevels}

\* values on, next to and away from every threshold of the rules
FeatureGrid ==
    {<<brown, yellow, black, white, rotting, hue, sat, val, tmean, tstd, tp90>> :
        brown \in Hundredths({0, 15, 20}), yellow \in Hundredths({0, 20, 21}),
        black \in Hundredths({0, 12, 13}), white \in Hundredths({0, 10, 11}),
        rotting \in Hundredths({0, 50}), hue \in Hundredths({40, 41}),
        sat \in Levels, val \in Levels, tmean \in Levels,
        tstd \in {Root(Q(4, 100)), Root(Q(9, 100))}, tp90 \in Levels}

InitClassifier ==
    /\ pc = "classifier_idle"
    /\ files = [k \in 1..Len(possible_locations) |-> NoFile]
    /\ request = NoRequest
    /\ img = NoImage
    /\ features \in FeatureGrid
    /\ sample_predictions = <<>>
    /\ use_sample = FALSE
    /\ predicted_class_index = -1
    /\ result = NoResult
    /\ outcome = "none"
    /\ path = "none"
    /\ API_KEY = TRUE
    /\ InitService

classifier_call ==
    /\ pc = "classifier_idle"
    /\ \E idx \in simple_disease_classifier(features) : predicted_class_index' = idx
    /\ pc' = "classified"
    /\ UNCHANGED <<files, request, img, features, sample_predictions, use_sample,
                   result, outcome, path>>
    /\ UNCHANGED serviceVars

NextClassifier == classifier_call

SpecClassifier == InitClassifier /\ [][NextClassifier]_vars

Rule1 == GreaterThan(features[1], 15, 100) /\ GreaterThan(features[10], 2, 10)

Rule2 == GreaterThan(features[2], 2, 10)

Rule3 == GreaterThan(features[4], 1, 10)

Rule4 == GreaterThan(features[3], 12, 100)

Rule5 ==
    /\ LessThan(MeanQ(<<features[1], features[2], features[3], features[4], features[5]>>), 1, 10)
    /\ GreaterThan(features[6], 4, 10)

PredictedLabel == CLASSES[predicted_class_index + 1]

\* C5: the first rule whose condition holds alone decides the label: rule 1
\* gives Apple_Apple_scab or Apple_Black_rot, rule 2 Tomato_Early_blight,
\* rule 3 Cherry_Powdery_mildew, rule 4 Tomato_Late_blight, rule 5 a label
\* containing 'Healthy'; the index returned is always one of CLASSES.
FirstMatchingRuleDecides ==
    pc = "classified" =>
        /\ predicted_class_index + 1 \in DOMAIN CLASSES
        /\ Rule1 => PredictedLabel \in {Name(<<"Apple", "Apple", "scab">>),
                                        Name(<<"Apple", "Black", "rot">>)}
        /\ (~Rule1 /\ Rule2) => PredictedLabel = Name(<<"Tomato", "Early", "blight">>)
        /\ (~Rule1 /\ ~Rule2 /\ Rule3) =>
               PredictedLabel = Name(<<"Cherry", "Powdery", "mildew">>)
        /\ (~Rule1 /\ ~Rule2 /\ ~Rule3 /\ Rule4) =>
               PredictedLabel = Name(<<"Tomato", "Late", "blight">>)
        /\ (~Rule1 /\ ~Rule2 /\ ~Rule3 /\ ~Rule4 /\ Rule5) =>
               /\ ContainsHealthy(PredictedLabel)
               /\ predicted_class_index \in healthy_indices
               /\ Cardinality({CLASSES[i + 1] : i \in healthy_indices}) = 12

\* brown 0.2 and std-dev 0.3 with the yellow rule met as well
FirstMatchingRuleWitness ==
    /\ pc = "classified"
    /\ features[1] = Q(20, 100)
    /\ features[10] = Root(Q(9, 100))
    /\ Rule2
    /\ Rule3
    /\ PredictedLabel = Name(<<"Apple", "Black", "rot">>)

(***************************************************************************)
(* The feature extraction on its own, over every image of the bounds       *)
(***************************************************************************)
InitFeatures ==
    /\ pc = "features_idle"
    /\ files = [k \in 1..Len(possible_locations) |-> NoFile]
    /\ request = NoRequest
    /\ img \in Images
    /\ features = <<>>
    /\ sample_predictions = <<>>
    /\ use_sample = FALSE
    /\ predicted_class_index = -1
    /\ result = NoResult
    /\ outcome = "none"
    /\ path = "none"
    /\ API_KEY = TRUE
    /\ InitService

features_call ==
    /\ pc = "features_idle"
    /\ features' = Features(img)
    /\ pc' = "extracted"
    /\ UNCHANGED <<files, request, img, sample_predictions, use_sample,
                   predicted_class_index, result, outcome, path>>
    /\ UNCHANGED serviceVars

NextFeatures == features_call

SpecFeatures == InitFeatures /\ [][NextFeatures]_vars

InUnit(x) == x.d > 0 /\ 0 <= x.n /\ x.n <= x.d

IndicatorOrder == <<"Brown spots", "Yellow spots", "Black spots", "White powder", "Rotting">>

Matching(k) ==
    {i \in 1..Len(img.hsv) :
        inRange(img.hsv[i], DISEASE_INDICATORS[k].lower, DISEASE_INDICATORS[k].upper)}

SameValue(x, y) == x.root = y.root /\ x.n * y.d = y.n * x.d

\* what the gradient magnitudes are divided by
Divisor ==
    IF \E i \in 1..NumPixels : img.gradient_mag[i] > 0
    THEN CHOOSE m \in 1..MaxGradient :
            /\ \E i \in 1..NumPixels : img.gradient_mag[i] = m
            /\ \A i \in 1..NumPixels : img.gradient_mag[i] <= m
    ELSE 1

Cube(n) == n * n * n

\* the sum over the pixels of (n * g - sum of g)^2: n^3 * divisor^2 times the
\* population variance of the normalised magnitudes
SquaredDeviations ==
    SumSeq([i \in 1..NumPixels |->
        (NumPixels * img.gradient_mag[i] - SumSeq(img.gradient_mag))
        * (NumPixels * img.gradient_mag[i] - SumSeq(img.gradient_mag))])

Sorted == SortSeq(img.gradient_mag, LAMBDA a, b : a < b)

\* position 0.9 * (n - 1) in the sorted magnitudes, as index below, index
\* above and tenths in between
P90Below == ((9 * (NumPixels - 1)) \div 10) + 1

P90Above == IF P90Below < NumPixels THEN P90Below + 1 ELSE P90Below

P90Tenths == (9 * (NumPixels - 1)) % 10

\* C10: the vector has exactly 11 elements: the ratios of the brown, yellow,
\* black, white and rotting indicators, then the means of H, S and V over
\* 255, then mean, std-dev and 90th percentile of the gradient; every element
\* is a well-defined number (no zero denominator) within [0, 1], and with a
\* zero gradient maximum the three texture values are 0.
FeatureVectorShape ==
    pc = "extracted" =>
        /\ Len(features) = 11
        /\ \A i \in 1..Len(features) : InUnit(features[i])
        /\ \A k \in 1..5 :
            /\ DISEASE_INDICATORS[k].name = IndicatorOrder[k]
            /\ SameValue(features[k], Q(Cardinality(Matching(k)), NumPixels))
        /\ \A c \in 1..3 :
            SameValue(features[5 + c], Q(ChannelSum(img.hsv, c), 255 * NumPixels))
        /\ ~features[9].root /\ features[10].root /\ ~features[11].root
        /\ SameValue(features[9], Q(SumSeq(img.gradient_mag), NumPixels * Divisor))
        /\ SameValue(features[10], Root(Q(SquaredDeviations, Cube(NumPixels) * Divisor * Divisor)))
        /\ SameValue(features[11],
                     Q(10 * Sorted[P90Below] + P90Tenths * (Sorted[P90Above] - Sorted[P90Below]),
                       10 * Divisor))
        /\ (\A i \in 1..NumPixels : img.gradient_mag[i] = 0) =>
               \A t \in 9..11 : features[t].n = 0

\* an image without any edge that has a brown pixel
FeatureVectorWitness ==
    /\ pc = "extracted"
    /\ \A i \in 1..NumPixels : img.gradient_mag[i] = 0
    /\ features[1].n > 0
    /\ features[9] = Q(0, NumPixels)

(***************************************************************************)
(* get_treatment_recommendation                                            *)
(***************************************************************************)
\* str.replace(old, new) on single-character tokens
Replace(text, old, new) == [i \in 1..Len(text) |-> IF text[i] = old THEN new ELSE text[i]]

\* phrase in text
Contains(text, phrase) ==
    \E k \in 0..(Len(text) - Len(phrase)) :
        \A i \in 1..Len(phrase) : text[k + i] = phrase[i]

Header(title) == <<"\n", "##", " ", title, "\n">>

\* the f-string of the except branch; each body line is one token
CannedBody ==
    Header("Description")
    \o <<"This is a common plant disease that affects crops and ornamental plants.">>
    \o Header("Symptoms")
    \o <<"- Discoloration of leaves", "- Spots or lesions", "- Wilting or stunted growth">>
    \o Header("Treatment")
    \o <<"- Remove affected plant parts", "- Apply appropriate fungicide or insecticide",
         "- Ensure proper plant nutrition">>
    \o Header("Prevention")
    \o <<"- Rotate crops", "- Use disease-resistant varieties",
         "- Maintain good air circulation",
         "- Water at the base of plants to keep foliage dry">>
    \o <<"*Note: These are general recommendations. For specific treatment, please consult with a local agricultural extension service.*">>

CannedTitle == <<"#", " ", "Treatment", " ", "Recommendations", " ", "for", " ">>

\* the fallback text with the name put in as it came
CannedTextRaw(name) == CannedTitle \o name \o CannedBody

CannedText(name) == CannedTitle \o Replace(name, "_", " ") \o CannedBody

UnableText == <<"Unable to generate treatment recommendations at this time.">>

\* response.text of a successful generation: not interpreted
ResponseText == <<"<response.text>">>

StrName(text) == [is_str |-> TRUE, text |-> text]

\* a JSON value that is not a string, as /api/get_treatment passes it on
NotAString == [is_str |-> FALSE, text |-> <<>>]

DiseaseNames ==
    {StrName(l) : l \in ClassSet}
    \cup {StrName(DefaultPredictions[i].label) : i \in 1..Len(DefaultPredictions)}
    \cup {StrName(<<"Rust">>), NotAString}

\* model.generate_content(prompt): a response with text, a falsy response, a
\* response whose .text raises, or an exception; without a usable credential
\* the library call raises
GeminiOutcomes ==
    IF API_KEY THEN {"text", "falsy", "text_raises", "raises"} ELSE {"raises"}

InitAdvice ==
    /\ pc = "advice_idle"
    /\ files = [k \in 1..Len(possible_locations) |-> NoFile]
    /\ InitLocals
    /\ API_KEY \in BOOLEAN
    /\ InitService

get_treatment_recommendation ==
    /\ pc = "advice_idle"
    /\ \E name \in DiseaseNames, g \in GeminiOutcomes :
        /\ disease_name' = name
        /\ IF ~name.is_str
           THEN \* disease_name.replace raises in the try block and again in
                \* the f-string of the handler
                /\ gemini' = "not called"
                /\ treatment' = [raised |-> TRUE, text |-> <<>>]
           ELSE /\ gemini' = g
                /\ treatment' =
                     [raised |-> FALSE,
                      text |-> CASE g = "text" -> ResponseText
                                 [] g = "falsy" -> UnableText
                                 [] OTHER -> CannedText(name.text)]
    /\ pc' = "advised"
    /\ UNCHANGED <<detectVars, API_KEY, chat_history, next_handle, sent, reply, calls,
                   called, session_id, init_calls>>

NextAdvice == get_treatment_recommendation

SpecAdvice == InitAdvice /\ [][NextAdvice]_vars

SectionHeaders == {"Description", "Symptoms", "Treatment", "Prevention"}

HasHeaders(text) == \A h \in SectionHeaders : Contains(text, <<"##", " ", h>>)

IsCannedFor(text, name) ==
    /\ HasHeaders(text)
    /\ Contains(text, Replace(name, "_", " "))
    /\ ~Contains(text, <<"_">>)

\* C8 as stated, for string disease names: get_treatment_recommendation never
\* raises, and whenever the generative call fails, yields no usable response
\* or no credential is configured, it returns the canned text with the four
\* section headers and the disease name with underscores replaced by spaces.
AdviceAlwaysCanned ==
    (pc = "advised" /\ disease_name.is_str) =>
        /\ ~treatment.raised
        /\ (gemini \in {"raises", "text_raises", "falsy"} \/ ~API_KEY) =>
               IsCannedFor(treatment.text, disease_name.text)

\* C8 as amended: for a string disease name get_treatment_recommendation
\* never raises; when the generative call raises, as it does with no usable
\* credential, or reading the text of its response raises, the canned text
\* with the four section headers and the name with underscores replaced by
\* spaces is returned; when the call returns a falsy response the fixed
\* sentence "Unable to generate treatment recommendations at this time." is
\* returned, which has no section header.
AdviceFallback ==
    (pc = "advised" /\ disease_name.is_str) =>
        /\ ~treatment.raised
        /\ (gemini \in {"raises", "text_raises"} \/ ~API_KEY) =>
               IsCannedFor(treatment.text, disease_name.text)
        /\ gemini = "falsy" =>
               /\ treatment.text = UnableText
               /\ \A h \in SectionHeaders : ~Contains(treatment.text, <<h>>)

AdviceFallbackWitness ==
    /\ pc = "advised"
    /\ ~API_KEY
    /\ disease_name = StrName(Name(<<"Tomato", "Late", "blight">>))
    /\ Contains(treatment.text, <<"Tomato", " ", "Late", " ", "blight">>)
    /\ HasHeaders(treatment.text)

(***************************************************************************)
(* chat_with_gemini                                                        *)
(***************************************************************************)
SessionIds == {"s1", "s2"}

\* what the library does during one call: model.start_chat(), the priming
\* chat.send_message of initialize_chat, the chat.send_message of the user
\* message
LibOutcomes ==
    [start : {"ok", "raises"}, prime : {"ok", "raises"}, send : {"text", "no_text", "raises"}]

InitChat ==
    /\ pc = "chat_idle"
    /\ files = [k \in 1..Len(possible_locations) |-> NoFile]
    /\ InitLocals
    /\ API_KEY \in BOOLEAN
    /\ InitService

SendReply(lib) ==
    CASE lib.send = "text" -> "<response.text>"
      [] lib.send = "no_text" -> "I couldn't generate a response. Please try again."
      [] OTHER -> "I apologize, but I encountered an error while processing your request. Please try again later."

MissingKeyReply ==
    "Sorry, I cannot respond at the moment because the API key is missing. Please contact the administrator."

InitFailedReply == "Failed to initialize chat session. Please try again later."

\* initialize_chat as it would be if the session were stored right after
\* model.start_chat(), before the priming message
ChatCallStoreEarly(s, lib, needs_init) ==
    LET created == needs_init /\ lib.start = "ok"
        success == created /\ lib.prime = "ok"
        history == IF created THEN (s :> next_handle) @@ chat_history ELSE chat_history
    IN  /\ session_id' = s
        /\ IF ~API_KEY
           THEN /\ reply' = MissingKeyReply
                /\ UNCHANGED <<chat_history, next_handle, sent, init_calls>>
           ELSE /\ chat_history' = history
                /\ next_handle' = IF created THEN next_handle + 1 ELSE next_handle
                /\ init_calls' = IF needs_init THEN init_calls + 1 ELSE init_calls
                /\ IF needs_init /\ ~success
                   THEN /\ reply' = InitFailedReply
                        /\ sent' = sent
                   ELSE /\ sent' = sent \cup {<<s, history[s], calls + 1>>}
                        /\ reply' = SendReply(lib)

\* one call with session id s: needs_init tells whether initialize_chat runs
ChatCall(s, lib, needs_init) ==
    LET created == needs_init /\ lib.start = "ok"
        success == created /\ lib.prime = "ok"
        history == IF success THEN (s :> next_handle) @@ chat_history ELSE chat_history
    IN  /\ session_id' = s
        /\ IF ~API_KEY
           THEN /\ reply' = MissingKeyReply
                /\ UNCHANGED <<chat_history, next_handle, sent, init_calls>>
           ELSE /\ chat_history' = history
                /\ next_handle' = IF created THEN next_handle + 1 ELSE next_handle
                /\ init_calls' = IF needs_init THEN init_calls + 1 ELSE init_calls
                /\ IF needs_init /\ ~success
                   THEN /\ reply' = InitFailedReply
                        /\ sent' = sent
                   ELSE /\ sent' = sent \cup {<<s, history[s], calls + 1>>}
                        /\ reply' = SendReply(lib)

\* a handler that starts a new chat session on every call
chat_with_gemini_always_init ==
    /\ pc = "chat_idle"
    /\ calls < MaxCalls
    /\ \E s \in SessionIds, lib \in LibOutcomes :
        ChatCall(s, lib, TRUE) /\ called' = called \cup {s}
    /\ calls' = calls + 1
    /\ UNCHANGED <<pc, detectVars, API_KEY, disease_name, gemini, treatment>>

\* handle_chat calls chat_with_gemini(session_id, user_message)
chat_with_gemini ==
    /\ pc = "chat_idle"
    /\ calls < MaxCalls
    /\ \E s \in SessionIds, lib \in LibOutcomes :
        ChatCall(s, lib, s \notin DOMAIN chat_history) /\ called' = called \cup {s}
    /\ calls' = calls + 1
    /\ UNCHANGED <<pc, detectVars, API_KEY, disease_name, gemini, treatment>>

NextChat == chat_with_gemini

SpecChat == InitChat /\ [][NextChat]_vars

\* no entry is removed or replaced
HandlesKept ==
    \A s \in DOMAIN chat_history :
        s \in DOMAIN chat_history' /\ chat_history'[s] = chat_history[s]

\* every user message of a session id went out on the handle stored for it
SentOnStored ==
    \A m \in sent : m[1] \in DOMAIN chat_history /\ chat_history[m[1]] = m[2]

Created == DOMAIN chat_history' \ DOMAIN chat_history

\* C9 as stated: chat_history holds one handle per session id, created on the
\* first call that uses that id; every later call with that id sends its
\* message on that handle, and no entry is ever removed or replaced.
ChatHandleFromFirstCall ==
    [][ /\ HandlesKept
        /\ SentOnStored'
        /\ \A s \in Created : s \notin called
      ]_vars

\* C9 as amended: chat_history holds one handle per session id, created on
\* the first call with that id whose initialization succeeds (earlier calls
\* with that id sent no user message), by the call that then sends its
\* message on it; every later call with that id sends its message on that
\* handle, and no entry is ever removed or replaced.
ChatHandlesStable ==
    [][ /\ HandlesKept
        /\ SentOnStored'
        /\ \A s \in Created :
              /\ \A m \in sent : m[1] # s
              /\ <<s, chat_history'[s], calls'>> \in sent'
              /\ \A t \in DOMAIN chat_history : chat_history[t] # chat_history'[s]
      ]_vars

\* two sessions are stored, one of them after an initialization that failed,
\* and one has carried two user messages
ChatHandlesWitness ==
    /\ DOMAIN chat_history = SessionIds
    /\ \E s \in SessionIds : chat_history[s] > Cardinality(SessionIds)
    /\ \E m \in sent, n \in sent : m[1] = n[1] /\ m[2] = n[2] /\ m[3] < n[3]
    /\ calls = MaxCalls

(***************************************************************************)
(* The order of the sample decision and the rules in detect_disease        *)
(***************************************************************************)
\* C11: the sample decision comes before the rules: when the substitution is
\* chosen simple_disease_classifier is never invoked and the result is one
\* pair of the sample table, unchanged; when it is not chosen the classifier
\* runs and the label is CLASSES[index] for the index it returned.
SampleDecidedBeforeRules ==
    /\ pc \in {"classify", "confidence"} => ~use_sample
    /\ pc = "classify" => predicted_class_index = -1
    /\ (Returned /\ path = "sample") =>
        /\ use_sample
        /\ predicted_class_index = -1
        /\ result \in Entries(sample_predictions)
    /\ (Returned /\ path = "rules") =>
        /\ ~use_sample
        /\ predicted_class_index \in simple_disease_classifier(features)
        /\ result.label = CLASSES[predicted_class_index + 1]

\* a loaded pair, label and confidence as in the file, returned without any
\* classifier call
SampleDecidedWitness ==
    /\ Returned
    /\ path = "sample"
    /\ predicted_class_index = -1
    /\ sample_predictions = << Pred(Name(<<"Wheat", "Rust">>), 1000) >>
    /\ result = Pred(Name(<<"Wheat", "Rust">>), 1000)
    /\ Rule2

(***************************************************************************)
(* The size of CLASSES and the fallback of simple_disease_classifier       *)
(***************************************************************************)
NoRule == ~Rule1 /\ ~Rule2 /\ ~Rule3 /\ ~Rule4 /\ ~Rule5

\* C12 as stated: CLASSES has exactly 38 labels, and with no rule condition
\* met the fallback returns one of these 38 labels and nothing else.
FallbackOverThirtyEight ==
    (pc = "classified" /\ NoRule) =>
        /\ Len(CLASSES) = 38
        /\ predicted_class_index \in 0..37

\* C12 as amended: CLASSES has exactly 39 distinct labels (indices 0..38),
\* and with no rule condition met the fallback can return each of these 39
\* labels and nothing else.
FallbackOverAllClasses ==
    /\ Len(CLASSES) = 39
    /\ Cardinality(ClassSet) = 39
    /\ (pc = "classifier_idle" /\ NoRule) =>
           {CLASSES[i + 1] : i \in simple_disease_classifier(features)} = ClassSet
    /\ (pc = "classified" /\ NoRule) => PredictedLabel \in ClassSet

\* the fallback returned the last label of the enumeration
FallbackWitness ==
    /\ pc = "classified"
    /\ NoRule
    /\ predicted_class_index = 38
    /\ PredictedLabel = Name(<<"Tomato", "Healthy">>)

(***************************************************************************)
(* chat_with_gemini calls that cannot complete                             *)
(***************************************************************************)
FixedReplies ==
    {MissingKeyReply, InitFailedReply,
     "I couldn't generate a response. Please try again.",
     "I apologize, but I encountered an error while processing your request. Please try again later."}

\* a call was made in this step
ChatStep == calls' = calls + 1

\* the call of this step did not get a response text
Incomplete == reply' # "<response.text>"

\* C13 as stated: a call that cannot complete returns a fixed message; when
\* the credential is missing or initialize_chat fails chat_history is left
\* unchanged, no entry exists for that session id, and the next call with
\* the same id attempts initialization again.
FailedChatRetriesInit ==
    [][ /\ (ChatStep /\ Incomplete) => reply' \in FixedReplies
        /\ (ChatStep /\ reply' \in {MissingKeyReply, InitFailedReply}) =>
              /\ chat_history' = chat_history
              /\ session_id' \notin DOMAIN chat_history'
        /\ (ChatStep /\ reply \in {MissingKeyReply, InitFailedReply}
                     /\ session_id' = session_id) =>
              init_calls' = init_calls + 1
      ]_vars

\* C13 as amended: a call that cannot complete returns a fixed message; when
\* the credential is missing or initialize_chat fails chat_history is left
\* unchanged and no entry exists for that session id; after a failed
\* initialize_chat the next call with the same id attempts initialization
\* again, while with the credential missing the next call returns the
\* missing-key message again without calling initialize_chat.
FailedChatLeavesNoEntry ==
    [][ /\ (ChatStep /\ Incomplete) => reply' \in FixedReplies
        /\ (ChatStep /\ reply' \in {MissingKeyReply, InitFailedReply}) =>
              /\ chat_history' = chat_history
              /\ session_id' \notin DOMAIN chat_history'
        /\ (ChatStep /\ reply = InitFailedReply /\ session_id' = session_id) =>
              /\ init_calls' = init_calls + 1
              /\ reply' = InitFailedReply \/ session_id \in DOMAIN chat_history'
        /\ (ChatStep /\ reply = MissingKeyReply) =>
              /\ init_calls' = init_calls
              /\ reply' = MissingKeyReply
      ]_vars

\* a session stored by the call that followed a failed initialization of
\* the same id
FailedChatWitness ==
    /\ calls = 2
    /\ init_calls = 2
    /\ called = {session_id}
    /\ session_id \in DOMAIN chat_history
    /\ chat_history[session_id] = 2
    /\ reply = "<response.text>"

====
